---- MODULE Spec2Model ----
(***************************************************************************)
(* Banjo: the soldier behaviour core.                                      *)
(*                                                                         *)
(*   SoldierFSM  (src/banjo/characters/soldier_fsm.py)  the guarded        *)
(*               transition table `cycle` and its guards, which both test  *)
(*               and mutate the FSM's fields;                              *)
(*   Soldier     (src/banjo/characters/soldier_interface.py)  the per-tick *)
(*               controller `update`;                                      *)
(*   Banjo       (src/banjo/characters/banjo_player.py)  the player.       *)
(*                                                                         *)
(* A guard is modelled as an operator that takes the FSM record f and the  *)
(* keyword arguments k of cycle() and returns [r |-> result, f |-> the FSM *)
(* record after the guard's side effects].  cycle() walks the rows of the  *)
(* current state in the order of the source and threads the record through *)
(* the guards it evaluates, as python-statemachine does.                   *)
(***************************************************************************)
EXTENDS Integers, Sequences, FiniteSets, TLC

VARIABLES
    fsm,      \* the SoldierFSM object: current state and fields
    sol,      \* the Soldier sprite: position, facing, animation, timers
    banjo,    \* the player
    obs,      \* the last operation: a tick and the state it started in, or
              \* another call
    platoon   \* Platoon.soldiers: the FSM object and the sprite of each
              \* soldier of a platoon; empty where a single soldier is studied

vars == <<fsm, sol, banjo, obs, platoon>>

-----------------------------------------------------------------------------
(* Program constants                                                       *)

RIGHT_FACING == 0
LEFT_FACING == 1

\* SoldierFSM.__init__ defaults
shooting_range == 800
melee_range == 100
hearing_range == 1000

\* literals of the guards
VerticalTolerance == 50
ArrivalTolerance == 10

\* banjo_player.py
HP == 100
ATTACK == 1
EatHeal == 20

\* Soldier constructor arguments (soldier_interface.py, Soldier.__init__):
\* one time unit is one animation frame period, velocities are per physics
\* step, accuracy is in percent
FrameTime == 1
patrol_pace == 0
time_to_recover == 0
walking_velocity == 100
running_velocity == 200
shooting_damage == 100
melee_damage == 100
accuracy == 0

-----------------------------------------------------------------------------
(* Bounds of the model                                                     *)

\* constructor argument hp of the soldier
MaxHp == 1
\* constructor argument mag_size of the soldier
MagSize == 1
\* frames of every clip of texture_dict
NumFrames == 3

\* meals (Banjo.eat) a player who has lost all hp takes
MaxEats == 1

\* the level's walls: the physics engine keeps the soldier inside
XMin == 1000
XMax == 1100
\* where the soldier is placed after construction
StartX == 1000

\* what the player does in a frame: <<x, y, clip, frame index>>.
\* 1005 is within melee_range of both ends of the level, 1100 only of the
\* right end; 51 is out of the vertical tolerance; 3 is an impact frame of
\* the melee clip, 0 is not
PlayerPoses ==
    {<<1005, 0, "melee", 3>>, <<1100, 0, "idle", 0>>, <<1100, 0, "melee", 3>>,
     <<1100, 51, "idle", 0>>}
\* values random.randint(500, 2000) returns for a new checkpoint
Checkpoints == {1000}
\* patrol lists a level sets with set_patrol_checkpoints
PatrolLists == {<<>>, <<1000, 1100>>}
\* the delta_time of a frame, in time units: the game runs at the frame rate
\* of the clips
DeltaTimes == {1}
\* values of random.random() in percent
Rolls == {0, 99}

-----------------------------------------------------------------------------
(* Helpers                                                                 *)

Abs(n) == IF n < 0 THEN -n ELSE n

Max(a, b) == IF a >= b THEN a ELSE b

\* Python's None for chase_to is the empty sequence, an int x is <<x>>
None == <<>>

Some(x) == <<x>>

Ret(r, f) == [r |-> r, f |-> f]

\* one statement after another: F applied to the value of x
Then(x, F(_)) == CHOOSE r \in {F(v) : v \in {x}} : TRUE

States ==
    {"idle", "walk", "run", "shoot", "reload", "melee", "alert", "hurt",
     "dead", "at_ease"}

-----------------------------------------------------------------------------
(* SoldierFSM: construction and guards                                     *)

FsmInit ==
    [state |-> "idle",
     hp |-> MaxHp,
     current_mag |-> MagSize,
     patrol_checkpoints |-> <<>>,
     chase_to |-> None,
     take_a_break |-> FALSE,
     reload_done |-> FALSE,
     alert_done |-> FALSE,
     is_recovered |-> TRUE]

set_patrol_checkpoints(f, patrol_checkpoints) ==
    [f EXCEPT !.patrol_checkpoints = patrol_checkpoints]

\* a faulty variant: the target is set whenever the player is near enough
can_hear_marks_unheard(f, k) ==
    LET near == Abs(k.soldier_coordinate[1] - k.enemy_coordinate[1])
                    <= hearing_range
    IN  Ret(near /\ k.enemy_barking,
            IF near THEN [f EXCEPT !.chase_to = Some(k.enemy_coordinate[1])]
            ELSE f)

can_hear(f, k) ==
    LET h == Abs(k.soldier_coordinate[1] - k.enemy_coordinate[1]) <= hearing_range
             /\ k.enemy_barking
    IN  IF h
        THEN Ret(TRUE, [f EXCEPT !.chase_to = Some(k.enemy_coordinate[1])])
        ELSE Ret(FALSE, f)

finish_alert(f, k) ==
    IF f.alert_done
    THEN Ret(TRUE, [f EXCEPT !.alert_done = FALSE])
    ELSE Ret(FALSE, f)

can_take_a_break(f, k) == Ret(f.take_a_break, f)

\* a faulty variant: the first checkpoint is the target
can_patrol_first_checkpoint(f, k) ==
    IF f.patrol_checkpoints = <<>>
    THEN Ret(FALSE, f)
    ELSE IF Abs(k.soldier_coordinate[1] - f.patrol_checkpoints[1])
            > ArrivalTolerance
         THEN Ret(TRUE, f)
         ELSE Ret(FALSE, [f EXCEPT !.take_a_break = TRUE])

can_patrol(f, k) ==
    IF f.patrol_checkpoints = <<>>
    THEN Ret(FALSE, f)
    ELSE IF Abs(k.soldier_coordinate[1]
                - f.patrol_checkpoints[Len(f.patrol_checkpoints)])
            > ArrivalTolerance
         THEN Ret(TRUE, f)
         ELSE Ret(FALSE, [f EXCEPT !.take_a_break = TRUE])

\* a faulty variant: the target survives the arrival
can_chase_keeps_target(f, k) ==
    Ret(f.chase_to # None
            /\ Abs(k.soldier_coordinate[1] - f.chase_to[1]) > ArrivalTolerance,
        f)

can_chase(f, k) ==
    IF f.chase_to # None
    THEN IF Abs(k.soldier_coordinate[1] - f.chase_to[1]) > ArrivalTolerance
         THEN Ret(TRUE, f)
         ELSE Ret(FALSE, [f EXCEPT !.chase_to = None])
    ELSE Ret(FALSE, f)

\* a faulty variant: the comparison of the x coordinates is not strict
can_shoot_same_x(f, k) ==
    LET sx == k.soldier_coordinate[1]
        ex == k.enemy_coordinate[1]
        seen ==
            IF Abs(k.enemy_coordinate[2] - k.soldier_coordinate[2])
                > VerticalTolerance
            THEN FALSE
            ELSE IF k.soldier_facing_direction = RIGHT_FACING
                 THEN ex >= sx /\ Abs(ex - sx) < shooting_range
                 ELSE ex <= sx /\ Abs(ex - sx) < shooting_range
    IN  IF seen
        THEN Ret(TRUE, [f EXCEPT !.chase_to = Some(ex)])
        ELSE Ret(FALSE, f)

\* a faulty variant: the target is not recorded
can_shoot_no_target(f, k) ==
    LET sx == k.soldier_coordinate[1]
        ex == k.enemy_coordinate[1]
    IN  Ret(/\ Abs(k.enemy_coordinate[2] - k.soldier_coordinate[2])
                <= VerticalTolerance
            /\ IF k.soldier_facing_direction = RIGHT_FACING
               THEN ex > sx ELSE ex < sx
            /\ Abs(ex - sx) < shooting_range,
            f)

can_shoot(f, k) ==
    LET sx == k.soldier_coordinate[1]
        ex == k.enemy_coordinate[1]
        seen ==
            IF Abs(k.enemy_coordinate[2] - k.soldier_coordinate[2])
                > VerticalTolerance
            THEN FALSE
            ELSE IF k.soldier_facing_direction = RIGHT_FACING
                 THEN ex > sx /\ Abs(ex - sx) < shooting_range
                 ELSE ex < sx /\ Abs(ex - sx) < shooting_range
    IN  IF seen
        THEN Ret(TRUE, [f EXCEPT !.chase_to = Some(ex)])
        ELSE Ret(FALSE, f)

can_melee(f, k) ==
    LET near ==
            IF Abs(k.enemy_coordinate[2] - k.soldier_coordinate[2])
                > VerticalTolerance
            THEN FALSE
            ELSE Abs(k.enemy_coordinate[1] - k.soldier_coordinate[1])
                    < melee_range
    IN  IF near
        THEN Ret(TRUE, [f EXCEPT !.chase_to = Some(k.enemy_coordinate[1])])
        ELSE Ret(FALSE, f)

\* a faulty variant: the comparison is strict
mag_empty_below_zero(f, k) == Ret(f.current_mag < 0, f)

\* a faulty variant: the last round counts as none
mag_empty_last_round(f, k) == Ret(f.current_mag <= 1, f)

mag_empty(f, k) == Ret(f.current_mag = 0, f)

\* a faulty variant: the refill leaves reload_done set
finish_reloading_keeps_flag(f, k) ==
    IF f.reload_done
    THEN Ret(TRUE, [f EXCEPT !.current_mag = MagSize])
    ELSE Ret(FALSE, f)

finish_reloading(f, k) ==
    IF f.reload_done
    THEN Ret(TRUE, [f EXCEPT !.current_mag = MagSize, !.reload_done = FALSE])
    ELSE Ret(FALSE, f)

\* `return enemy_hitting` is reached with enemy_hitting true when the player
\* is within the vertical tolerance but not within melee_range
is_being_hit(f, k) ==
    IF k.enemy_hitting
    THEN IF Abs(k.enemy_coordinate[2] - k.soldier_coordinate[2])
            > VerticalTolerance
         THEN Ret(FALSE, f)
         ELSE IF Abs(k.enemy_coordinate[1] - k.soldier_coordinate[1])
                    < melee_range
              THEN Ret(TRUE, [f EXCEPT !.is_recovered = FALSE])
              ELSE Ret(k.enemy_hitting, f)
    ELSE Ret(k.enemy_hitting, f)

has_recovered(f, k) == Ret(f.is_recovered, f)

is_dying(f, k) == Ret(f.hp <= 0, f)

enemy_dead(f, k) == Ret(k.enemy_hp <= 0, f)

-----------------------------------------------------------------------------
(* SoldierFSM.cycle: the transition table                                  *)

\* Faulty variants of rows, one plausible slip each; the properties below
\* are sensitive to them.

\* Dead that stands down like the live states
dead_rows_stand_down == << <<"enemy_dead", "at_ease">>, <<"", "dead">> >>

\* AtEase that lasts only while the player is dead
at_ease_rows_resume == << <<"enemy_dead", "at_ease">>, <<"", "idle">> >>

\* Idle with is_being_hit tested before enemy_dead
idle_rows_hit_first ==
    << <<"is_being_hit", "hurt">>, <<"enemy_dead", "at_ease">>,
       <<"can_melee", "melee">>, <<"mag_empty", "reload">>,
       <<"can_shoot", "shoot">>, <<"can_hear", "alert">>,
       <<"can_chase", "run">>, <<"can_patrol", "walk">>,
       <<"", "idle">> >>

\* Run with can_patrol tested before can_chase
run_rows_patrol_first ==
    << <<"enemy_dead", "at_ease">>, <<"is_being_hit", "hurt">>,
       <<"can_melee", "melee">>, <<"mag_empty", "reload">>,
       <<"can_shoot", "shoot">>, <<"can_hear", "alert">>,
       <<"can_patrol", "walk">>, <<"can_chase", "run">>,
       <<"", "idle">> >>

\* Melee that reloads on an empty magazine alone, like Shoot
melee_rows_reload_on_empty ==
    << <<"enemy_dead", "at_ease">>, <<"is_being_hit", "hurt">>,
       <<"can_melee", "melee">>, <<"mag_empty", "reload">>,
       <<"can_shoot", "shoot">>, <<"can_chase", "run">>,
       <<"", "idle">> >>

\* Reload with mag_empty tested before finish_reloading
reload_rows_empty_first ==
    << <<"enemy_dead", "at_ease">>, <<"is_being_hit", "hurt">>,
       <<"can_melee", "melee">>, <<"mag_empty", "reload">>,
       <<"finish_reloading", "idle">>, <<"can_shoot", "shoot">>,
       <<"can_hear", "alert">>, <<"can_chase", "run">>,
       <<"", "idle">> >>

\* Hurt with is_dying tested after the self-loop
shoot_rows_shoot_first ==
    << <<"enemy_dead", "at_ease">>, <<"is_being_hit", "hurt">>,
       <<"can_melee", "melee">>, <<"can_shoot", "shoot">>,
       <<"mag_empty", "reload">>, <<"can_chase", "run">>,
       <<"", "idle">> >>

walk_rows_no_fallback ==
    << <<"enemy_dead", "at_ease">>, <<"is_being_hit", "hurt">>,
       <<"can_melee", "melee">>, <<"mag_empty", "reload">>,
       <<"can_shoot", "shoot">>, <<"can_hear", "alert">>,
       <<"can_chase", "run">>, <<"can_patrol", "walk">>,
       <<"can_take_a_break", "idle">> >>

\* Hurt that is left as soon as the blows stop, like the other states
hurt_rows_leave_unrecovered ==
    << <<"enemy_dead", "at_ease">>, <<"is_dying", "dead">>,
       <<"is_being_hit", "hurt">>, <<"", "idle">> >>

hurt_rows_dying_late ==
    << <<"enemy_dead", "at_ease">>,
       <<"(is_being_hit and can_melee) or !has_recovered", "hurt">>,
       <<"is_dying", "dead">>,
       <<"", "idle">> >>

\* A row is <<cond, target>>.  A cond is the name of a guard, "" for a
\* transition without cond, a list cond=[a, b] written "a,b", or the
\* boolean expression of the hurt row.
idle_rows ==
    << <<"enemy_dead", "at_ease">>, <<"is_being_hit", "hurt">>,
       <<"can_melee", "melee">>, <<"mag_empty", "reload">>,
       <<"can_shoot", "shoot">>, <<"can_hear", "alert">>,
       <<"can_chase", "run">>, <<"can_patrol", "walk">>,
       <<"", "idle">> >>

walk_rows ==
    << <<"enemy_dead", "at_ease">>, <<"is_being_hit", "hurt">>,
       <<"can_melee", "melee">>, <<"mag_empty", "reload">>,
       <<"can_shoot", "shoot">>, <<"can_hear", "alert">>,
       <<"can_chase", "run">>, <<"can_patrol", "walk">>,
       <<"can_take_a_break", "idle">>,
       <<"", "at_ease">> >>

run_rows ==
    << <<"enemy_dead", "at_ease">>, <<"is_being_hit", "hurt">>,
       <<"can_melee", "melee">>, <<"mag_empty", "reload">>,
       <<"can_shoot", "shoot">>, <<"can_hear", "alert">>,
       <<"can_chase", "run">>, <<"can_patrol", "walk">>,
       <<"", "idle">> >>

shoot_rows ==
    << <<"enemy_dead", "at_ease">>, <<"is_being_hit", "hurt">>,
       <<"can_melee", "melee">>, <<"mag_empty", "reload">>,
       <<"can_shoot", "shoot">>, <<"can_chase", "run">>,
       <<"", "idle">> >>

melee_rows ==
    << <<"enemy_dead", "at_ease">>, <<"is_being_hit", "hurt">>,
       <<"can_melee", "melee">>, <<"mag_empty,can_shoot", "reload">>,
       <<"can_shoot", "shoot">>, <<"can_chase", "run">>,
       <<"", "idle">> >>

reload_rows ==
    << <<"enemy_dead", "at_ease">>, <<"is_being_hit", "hurt">>,
       <<"can_melee", "melee">>, <<"finish_reloading", "idle">>,
       <<"mag_empty", "reload">>, <<"can_shoot", "shoot">>,
       <<"can_hear", "alert">>, <<"can_chase", "run">>,
       <<"", "idle">> >>

hurt_rows ==
    << <<"enemy_dead", "at_ease">>, <<"is_dying", "dead">>,
       <<"(is_being_hit and can_melee) or !has_recovered", "hurt">>,
       <<"", "idle">> >>

alert_rows ==
    << <<"enemy_dead", "at_ease">>, <<"is_being_hit", "hurt">>,
       <<"can_melee", "melee">>, <<"mag_empty", "reload">>,
       <<"can_shoot", "shoot">>, <<"finish_alert", "idle">>,
       <<"can_hear", "alert">>, <<"can_chase", "run">>,
       <<"can_patrol", "walk">>, <<"", "idle">> >>

at_ease_rows == << <<"", "at_ease">> >>

dead_rows == << <<"", "dead">> >>

TransitionsFrom(s) ==
    CASE s = "idle" -> idle_rows
      [] s = "walk" -> walk_rows
      [] s = "run" -> run_rows
      [] s = "shoot" -> shoot_rows
      [] s = "melee" -> melee_rows
      [] s = "reload" -> reload_rows
      [] s = "hurt" -> hurt_rows
      [] s = "alert" -> alert_rows
      [] s = "at_ease" -> at_ease_rows
      [] s = "dead" -> dead_rows

\* `a and b`, and cond=[a, b]: b is evaluated only when a holds
AndThen(a, b) == IF a.r THEN b ELSE Ret(FALSE, a.f)

\* `a or b`: b is evaluated only when a fails
OrElse(a, b) == IF a.r THEN a ELSE b

EvalCond(c, f, k) ==
    CASE c = "" -> Ret(TRUE, f)
      [] c = "enemy_dead" -> enemy_dead(f, k)
      [] c = "is_being_hit" -> is_being_hit(f, k)
      [] c = "can_melee" -> can_melee(f, k)
      [] c = "mag_empty" -> mag_empty(f, k)
      [] c = "can_shoot" -> can_shoot(f, k)
      [] c = "can_hear" -> can_hear(f, k)
      [] c = "can_chase" -> can_chase(f, k)
      [] c = "can_patrol" -> can_patrol(f, k)
      [] c = "can_take_a_break" -> can_take_a_break(f, k)
      [] c = "finish_reloading" -> finish_reloading(f, k)
      [] c = "finish_alert" -> finish_alert(f, k)
      [] c = "is_dying" -> is_dying(f, k)
      [] c = "mag_empty,can_shoot" ->
            LET a == mag_empty(f, k)
            IN  AndThen(a, can_shoot(a.f, k))
      [] c = "(is_being_hit and can_melee) or !has_recovered" ->
            LET a == is_being_hit(f, k)
                ab == AndThen(a, can_melee(a.f, k))
                n == has_recovered(ab.f, k)
            IN  OrElse(ab, Ret(~n.r, n.f))

\* The first row, in order, whose cond holds fires; the side effects of the
\* conds evaluated on the way stay.
RECURSIVE FirstEnabled(_, _, _, _)
FirstEnabled(rows, i, f, k) ==
    IF i > Len(rows)
    THEN [f EXCEPT !.state = "TransitionNotAllowed"]
    ELSE Then(EvalCond(rows[i][1], f, k),
              LAMBDA e : IF e.r
                         THEN [e.f EXCEPT !.state = rows[i][2]]
                         ELSE FirstEnabled(rows, i + 1, e.f, k))

cycle(f, k) == FirstEnabled(TransitionsFrom(f.state), 1, f, k)

-----------------------------------------------------------------------------
(* Banjo, the player                                                       *)

BanjoInit ==
    [hp |-> HP,
     center_x |-> StartX,
     center_y |-> 0,
     current_animation |-> "idle",
     current_texture_index |-> 0,
     is_dying |-> FALSE,
     is_dead |-> FALSE]

melee_impact_texture_indices_banjo == {3, 6}

Banjo_eat(b) ==
    [b EXCEPT !.hp = IF b.hp + EatHeal >= HP THEN HP ELSE b.hp + EatHeal]

\* a faulty variant: the hp is not set to 0 when the player dies
Banjo_damaged_no_floor(b, damage) ==
    IF b.current_animation = "death" \/ b.is_dead
    THEN b
    ELSE IF b.hp - damage <= 0
         THEN [b EXCEPT !.hp = b.hp - damage, !.current_animation = "death"]
         ELSE [b EXCEPT !.hp = b.hp - damage]

Banjo_damaged(b, damage) ==
    IF b.current_animation = "death" \/ b.is_dead
    THEN b
    ELSE IF b.hp - damage <= 0
         THEN [b EXCEPT !.hp = 0, !.current_animation = "death"]
         ELSE [b EXCEPT !.hp = b.hp - damage]

\* Banjo.death, one animation frame of a death clip of one texture: the
\* first frame latches is_dying, the frame after the last one latches is_dead
Banjo_death(b) ==
    IF ~b.is_dying
    THEN [b EXCEPT !.is_dying = TRUE, !.current_texture_index = 1]
    ELSE [b EXCEPT !.is_dead = TRUE]

\* Banjo.update_animation when the frame period has elapsed; the frame index
\* of the other clips is part of the pose
Banjo_update_animation(b) ==
    IF b.is_dead
    THEN b
    ELSE IF b.is_dying \/ b.current_animation = "death"
         THEN Banjo_death([b EXCEPT !.current_animation = "death"])
         ELSE b

\* The window's handle_player_controls and the physics step: nothing while
\* the death clip plays, otherwise the keys choose the clip and the position
handle_player_controls(b, pose) ==
    IF b.is_dying
    THEN b
    ELSE [b EXCEPT !.center_x = pose[1], !.center_y = pose[2],
                   !.current_animation = pose[3],
                   !.current_texture_index = pose[4]]

-----------------------------------------------------------------------------
(* Soldier: the sprite around the FSM.  A world w is [f, s, b]: the FSM,   *)
(* the soldier sprite and the player, as one tick reads and writes them.   *)

SoldierInit ==
    [center_x |-> StartX,
     center_y |-> 0,
     change_x |-> 0,
     character_facing_direction |-> RIGHT_FACING,
     current_texture_index |-> 0,
     is_reloading |-> FALSE,
     is_alert |-> FALSE,
     is_dying |-> FALSE,
     is_dead |-> FALSE,
     time_since_last_frame |-> 0,
     time_since_last_coordinate |-> 0,
     time_since_last_hit |-> 0,
     shooting_damage |-> shooting_damage,
     melee_damage |-> melee_damage,
     patrol_pace |-> patrol_pace,
     animation_fps |-> FrameTime]

melee_impact_texture_indices == {1}
shoot_impact_texture_indices == {2}

\* the hp setter floors at 0
\* a faulty variant: the hp setter does not clamp
damaged_no_floor(f, damage) == [f EXCEPT !.hp = f.hp - damage]

damaged(f, damage) == [f EXCEPT !.hp = Max(0, f.hp - damage)]

\* the frame stepping shared by idle, at_ease, walk, run, melee, shoot, hurt
NextFrame(s) ==
    LET i == IF s.current_texture_index > NumFrames - 1
             THEN 0 ELSE s.current_texture_index
    IN  [s EXCEPT !.current_texture_index = i + 1]

\* the index the frame method shows, after its wrap
ShownFrame(s) ==
    IF s.current_texture_index > NumFrames - 1 THEN 0 ELSE s.current_texture_index

Soldier_idle(w) == [w EXCEPT !.s = NextFrame([w.s EXCEPT !.change_x = 0])]

Soldier_at_ease(w) == [w EXCEPT !.s = NextFrame([w.s EXCEPT !.change_x = 0])]

Soldier_walk(w) ==
    [w EXCEPT !.s = NextFrame([w.s EXCEPT !.change_x =
        walking_velocity * (1 - 2 * w.s.character_facing_direction)])]

Soldier_run(w) ==
    [w EXCEPT !.s = NextFrame([w.s EXCEPT !.change_x =
        running_velocity * (1 - 2 * w.s.character_facing_direction)])]

Soldier_melee(w) == [w EXCEPT !.s = NextFrame([w.s EXCEPT !.change_x = 0])]

\* Soldier1.shoot: the round leaves the magazine on frame index 2
Soldier_shoot(w) ==
    [w EXCEPT !.s = NextFrame([w.s EXCEPT !.change_x = 0]),
              !.f.current_mag = IF ShownFrame(w.s) = 2
                                THEN w.f.current_mag - 1
                                ELSE w.f.current_mag]

Soldier_reload(w) ==
    LET s0 == [w.s EXCEPT !.change_x = 0]
        s1 == IF ~s0.is_reloading
              THEN [s0 EXCEPT !.current_texture_index = 0, !.is_reloading = TRUE]
              ELSE s0
    IN  IF s1.current_texture_index > NumFrames - 1
        THEN [w EXCEPT !.s = [s1 EXCEPT !.current_texture_index = 0,
                                        !.is_reloading = FALSE],
                       !.f.reload_done = TRUE]
        ELSE [w EXCEPT !.s = [s1 EXCEPT !.current_texture_index = @ + 1]]

Soldier_alert(w) ==
    LET s0 == [w.s EXCEPT !.change_x = 0]
        s1 == IF ~s0.is_alert
              THEN [s0 EXCEPT !.current_texture_index = 0, !.is_alert = TRUE]
              ELSE s0
    IN  IF s1.current_texture_index > NumFrames - 1
        THEN [w EXCEPT !.s = [s1 EXCEPT !.current_texture_index = 0,
                                        !.is_alert = FALSE],
                       !.f.alert_done = TRUE]
        ELSE [w EXCEPT !.s = [s1 EXCEPT !.current_texture_index = @ + 1]]

Soldier_hurt(w) == [w EXCEPT !.s = NextFrame([w.s EXCEPT !.change_x = 0])]

Soldier_dead(w) ==
    LET s0 == [w.s EXCEPT !.change_x = 0]
        s1 == IF ~s0.is_dying
              THEN [s0 EXCEPT !.current_texture_index = 0, !.is_dying = TRUE]
              ELSE s0
    IN  IF s1.current_texture_index > NumFrames - 1
        THEN [w EXCEPT !.s = [s1 EXCEPT !.is_dead = TRUE, !.is_dying = FALSE]]
        ELSE [w EXCEPT !.s = [s1 EXCEPT !.current_texture_index = @ + 1]]

\* getattr(self, self.current_state)()
PlayClip(w) ==
    CASE w.f.state = "idle" -> Soldier_idle(w)
      [] w.f.state = "at_ease" -> Soldier_at_ease(w)
      [] w.f.state = "walk" -> Soldier_walk(w)
      [] w.f.state = "run" -> Soldier_run(w)
      [] w.f.state = "melee" -> Soldier_melee(w)
      [] w.f.state = "shoot" -> Soldier_shoot(w)
      [] w.f.state = "reload" -> Soldier_reload(w)
      [] w.f.state = "alert" -> Soldier_alert(w)
      [] w.f.state = "hurt" -> Soldier_hurt(w)
      [] w.f.state = "dead" -> Soldier_dead(w)

update_animation(w, delta_time) ==
    IF w.s.is_dead
    THEN w
    ELSE LET t == w.s.time_since_last_frame + delta_time
         IN  IF t >= w.s.animation_fps
             THEN [PlayClip(w) EXCEPT !.s.time_since_last_frame = 0]
             ELSE [w EXCEPT !.s.time_since_last_frame = t]

soldier_patrolling(w, delta_time, checkpoint) ==
    LET resting == w.f.take_a_break /\ w.f.state = "idle"
        over == w.s.time_since_last_coordinate > w.s.patrol_pace
        w1 == IF resting /\ over
              THEN [w EXCEPT !.f = set_patrol_checkpoints(
                                      [w.f EXCEPT !.take_a_break = FALSE],
                                      <<checkpoint>>),
                             !.s.time_since_last_coordinate = 0]
              ELSE w
    IN  IF resting /\ ~over
        THEN [w EXCEPT !.s.time_since_last_coordinate = @ + delta_time]
        ELSE IF w1.f.patrol_checkpoints = <<>>
             THEN w1
             ELSE LET target_x ==
                          w1.f.patrol_checkpoints[Len(w1.f.patrol_checkpoints)]
                  IN  IF target_x < w1.s.center_x
                      THEN [w1 EXCEPT !.s.character_facing_direction = LEFT_FACING]
                      ELSE IF target_x > w1.s.center_x
                           THEN [w1 EXCEPT !.s.character_facing_direction =
                                               RIGHT_FACING]
                           ELSE w1

soldier_chasing(w) ==
    IF w.f.chase_to = None \/ w.f.state # "run"
    THEN w
    ELSE LET target_x == w.f.chase_to[1]
         IN  IF target_x < w.s.center_x
             THEN [w EXCEPT !.s.character_facing_direction = LEFT_FACING]
             ELSE IF target_x > w.s.center_x
                  THEN [w EXCEPT !.s.character_facing_direction = RIGHT_FACING]
                  ELSE w

\* a faulty variant: the inner complement is dropped
calculate_accuracy_no_complement(acc, distance) ==
    100 * shooting_range * shooting_range - acc * distance * distance

\* 1 - (1 - acc) * (distance / shooting_range) ** 2 for a base accuracy acc
\* in percent; the value is in percent times shooting_range ** 2, which
\* keeps it exact
calculate_accuracy(acc, distance) ==
    100 * shooting_range * shooting_range - (100 - acc) * distance * distance

\* hit_chance <= 1 - (1 - accuracy) * (distance / shooting_range) ** 2, with
\* hit_chance and accuracy in percent and both sides times
\* 100 * shooting_range ** 2
RollHits(roll, distance) ==
    roll * shooting_range * shooting_range
        <= calculate_accuracy(accuracy, distance)

shoot_banjo(w, roll) ==
    IF w.f.state # "shoot"
    THEN w
    ELSE IF w.s.current_texture_index \in shoot_impact_texture_indices
            /\ RollHits(roll, Abs(w.b.center_x - w.s.center_x))
         THEN [w EXCEPT !.b = Banjo_damaged(w.b, w.s.shooting_damage)]
         ELSE w

\* a faulty variant: every frame of the melee clip deals the damage
melee_banjo_any_frame(w) ==
    IF w.f.state # "melee"
    THEN w
    ELSE [w EXCEPT !.b = Banjo_damaged(w.b, w.s.melee_damage)]

melee_banjo(w) ==
    IF w.f.state # "melee"
    THEN w
    ELSE IF w.s.current_texture_index \in melee_impact_texture_indices
         THEN [w EXCEPT !.b = Banjo_damaged(w.b, w.s.melee_damage)]
         ELSE w

\* a faulty variant: the recovery timer runs but is_recovered is never set
melee_soldier_no_recovery(w, delta_time) ==
    IF w.f.state # "hurt"
    THEN w
    ELSE IF w.b.current_animation # "melee"
         THEN IF w.s.time_since_last_hit > time_to_recover
              THEN [w EXCEPT !.s.time_since_last_hit = 0]
              ELSE [w EXCEPT !.s.time_since_last_hit = @ + delta_time]
         ELSE IF w.b.current_texture_index
                    \in melee_impact_texture_indices_banjo
              THEN [w EXCEPT !.s.time_since_last_hit = 0,
                             !.f = damaged(w.f, ATTACK)]
              ELSE w

melee_soldier(w, delta_time) ==
    IF w.f.state # "hurt"
    THEN w
    ELSE IF w.b.current_animation # "melee"
         THEN IF w.s.time_since_last_hit > time_to_recover
              THEN [w EXCEPT !.s.time_since_last_hit = 0,
                             !.f.is_recovered = TRUE]
              ELSE [w EXCEPT !.s.time_since_last_hit = @ + delta_time]
         ELSE IF w.b.current_texture_index
                    \in melee_impact_texture_indices_banjo
              THEN [w EXCEPT !.s.time_since_last_hit = 0,
                             !.f = damaged(w.f, ATTACK)]
              ELSE w

\* a faulty variant: a player at the soldier's x counts as on its left
face_enemy_same_x_left(s, b) ==
    [s EXCEPT !.character_facing_direction =
        IF b.center_x <= s.center_x THEN LEFT_FACING ELSE RIGHT_FACING]

face_enemy(s, b) ==
    [s EXCEPT !.character_facing_direction =
        IF b.center_x < s.center_x THEN LEFT_FACING ELSE RIGHT_FACING]

\* the keyword arguments update_state passes to cycle()
fsm_transition_params(s, b) ==
    [soldier_coordinate |-> <<s.center_x, s.center_y>>,
     soldier_facing_direction |-> s.character_facing_direction,
     enemy_coordinate |-> <<b.center_x, b.center_y>>,
     enemy_hitting |-> b.current_animation = "melee",
     enemy_barking |-> b.current_animation = "bark",
     enemy_hp |-> b.hp]

update_state(w) ==
    LET f1 == cycle(w.f, fsm_transition_params(w.s, w.b))
    IN  [w EXCEPT !.f = f1,
                  !.s = IF f1.state \in {"shoot", "melee", "reload"}
                        THEN face_enemy(w.s, w.b)
                        ELSE w.s]

\* self.physics_engine.update(): the sprite moves by change_x, the level's
\* walls stop it
physics_engine_update(w) ==
    [w EXCEPT !.s.center_x =
        IF w.s.center_x + w.s.change_x < XMin THEN XMin
        ELSE IF w.s.center_x + w.s.change_x > XMax THEN XMax
        ELSE w.s.center_x + w.s.change_x]

\* Soldier.update with the banjo keyword argument
update(w, delta_time, roll, checkpoint) ==
    Then(Then(Then(Then(Then(Then(Then(Then(w,
        physics_engine_update),
        LAMBDA w1 : update_animation(w1, delta_time)),
        melee_banjo),
        LAMBDA w3 : melee_soldier(w3, delta_time)),
        LAMBDA w4 : shoot_banjo(w4, roll)),
        LAMBDA w5 : soldier_patrolling(w5, delta_time, checkpoint)),
        soldier_chasing),
        update_state)

\* a faulty variant: the check of the keyword argument comes after the
\* physics step
update_no_banjo_after_physics(w) ==
    [raised |-> "ValueError", w |-> physics_engine_update(w)]

\* Soldier.update without the banjo keyword argument: kwargs.get("banjo")
\* is None and ValueError is raised before anything else
update_no_banjo(w) == [raised |-> "ValueError", w |-> w]

-----------------------------------------------------------------------------
(* Platoon: a list p of soldiers, each a record [f, s]                     *)

\* Platoon.converge(target_position); offsets[j] is the random.randint(-300,
\* 300) drawn for soldier j
converge(p, target_position, offsets) ==
    [j \in 1..Len(p) |->
        [p[j] EXCEPT !.f.chase_to = Some(target_position + offsets[j])]]

\* the loop of Platoon.shots_fired from soldier i on; offsets[i] are the
\* draws of the converge call made for soldier i
RECURSIVE shots_fired_from(_, _, _)
shots_fired_from(p, i, offsets) ==
    IF i > Len(p)
    THEN p
    ELSE IF p[i].f.state = "shoot"
         THEN shots_fired_from(converge(p, p[i].f.chase_to[1], offsets[i]),
                               i + 1, offsets)
         ELSE shots_fired_from(p, i + 1, offsets)

shots_fired(p, offsets) == shots_fired_from(p, 1, offsets)

\* the loop of Platoon.update from soldier i on: soldier.update(delta_time,
\* banjo=banjo) in list order, on the one player b
RECURSIVE update_soldiers(_, _, _, _, _, _)
update_soldiers(p, b, i, delta_time, rolls, checkpoint) ==
    IF i > Len(p)
    THEN [p |-> p, b |-> b]
    ELSE LET w == update([f |-> p[i].f, s |-> p[i].s, b |-> b],
                         delta_time, rolls[i], checkpoint)
         IN  update_soldiers([p EXCEPT ![i] = [f |-> w.f, s |-> w.s]], w.b,
                             i + 1, delta_time, rolls, checkpoint)

\* Platoon.update with the banjo keyword argument
Platoon_update(p, b, delta_time, rolls, checkpoint, offsets) ==
    LET r == update_soldiers(p, b, 1, delta_time, rolls, checkpoint)
    IN  [p |-> shots_fired(r.p, offsets), b |-> r.b]

\* Platoon.update without the banjo keyword argument
Platoon_update_no_banjo(p) == [raised |-> "ValueError", p |-> p]

-----------------------------------------------------------------------------
(* Spec: one soldier and the player, frame by frame, from construction     *)

Init ==
    /\ fsm = FsmInit
    /\ sol = SoldierInit
    /\ banjo = BanjoInit
    /\ obs = [op |-> "init"]
    /\ platoon = <<>>

\* One frame of the game loop: the player's animation, the player's controls,
\* then Soldier.update(delta_time, banjo=banjo)
Frame(pose, delta_time, roll, checkpoint) ==
    LET b == handle_player_controls(Banjo_update_animation(banjo), pose)
        w == update([f |-> fsm, s |-> sol, b |-> b], delta_time, roll,
                    checkpoint)
    IN  /\ fsm' = w.f
        /\ sol' = w.s
        /\ banjo' = w.b
        /\ obs' = [op |-> "update", pre |-> fsm.state]
        /\ UNCHANGED platoon

\* Soldier.damaged(damage), a public mutator
Damaged(damage) ==
    /\ fsm' = damaged(fsm, damage)
    /\ obs' = [op |-> "call"]
    /\ UNCHANGED <<sol, banjo, platoon>>

\* SoldierFSM.set_patrol_checkpoints(patrol_checkpoints), called by the level
SetPatrolCheckpoints(patrol_checkpoints) ==
    /\ fsm' = set_patrol_checkpoints(fsm, patrol_checkpoints)
    /\ obs' = [op |-> "call"]
    /\ UNCHANGED <<sol, banjo, platoon>>

\* Banjo.eat(); at full hp it changes nothing
Eat ==
    /\ banjo.hp < HP
    /\ banjo.hp < MaxEats * EatHeal
    /\ banjo' = Banjo_eat(banjo)
    /\ obs' = [op |-> "call"]
    /\ UNCHANGED <<fsm, sol, platoon>>

Next ==
    \/ \E pose \in PlayerPoses, delta_time \in DeltaTimes, roll \in Rolls,
          checkpoint \in Checkpoints :
            Frame(pose, delta_time, roll, checkpoint)
    \/ \E damage \in 1..MaxHp : Damaged(damage)
    \/ \E l \in PatrolLists : SetPatrolCheckpoints(l)
    \/ Eat

Spec == Init /\ [][Next]_vars

-----------------------------------------------------------------------------
(* SpecFSM: SoldierFSM.cycle as a function, applied once to an FSM object  *)
(* in any state with any fields, under any keyword arguments               *)

\* the soldier stands at (SoldierX, 0) when cycle() is called
SoldierX == 1000

\* where the player stands: left of the soldier within melee_range, right of
\* it at exactly melee_range, at exactly shooting_range, and out of
\* hearing_range; at the vertical tolerance and just over it
EnemyXs == {995, 1100, 1800, 2001}
EnemyYs == {50, 51}

\* the last checkpoint and the chase target: where the soldier stands, or
\* further away than the arrival tolerance
Targets == {1000, 1100}

FsmInputs ==
    {f \in [state : States,
            hp : {0, MaxHp},
            current_mag : {0, MagSize},
            patrol_checkpoints : {<<>>} \cup {<<t>> : t \in Targets},
            chase_to : {None} \cup {Some(t) : t \in Targets},
            take_a_break : BOOLEAN,
            reload_done : BOOLEAN,
            alert_done : BOOLEAN,
            is_recovered : BOOLEAN] :
        f.state = "dead" => f.hp = 0}

\* the keyword arguments: the player's clip is one of idle, melee and bark,
\* so enemy_hitting and enemy_barking never hold together
Kwargs ==
    {k \in [soldier_coordinate : {<<SoldierX, 0>>},
            soldier_facing_direction : {RIGHT_FACING, LEFT_FACING},
            enemy_coordinate : EnemyXs \X EnemyYs,
            enemy_hitting : BOOLEAN,
            enemy_barking : BOOLEAN,
            enemy_hp : {0, HP}] :
        ~(k.enemy_hitting /\ k.enemy_barking)}

InitFSM ==
    /\ fsm \in FsmInputs
    /\ sol = SoldierInit
    /\ banjo = BanjoInit
    /\ obs = [op |-> "input"]
    /\ platoon = <<>>

\* fsm.cycle(**k)
CycleCall(k) ==
    /\ obs.op = "input"
    /\ fsm' = cycle(fsm, k)
    /\ obs' = [op |-> "cycle", pre |-> fsm, k |-> k]
    /\ UNCHANGED <<sol, banjo, platoon>>

NextFSM == \E k \in Kwargs : CycleCall(k)

SpecFSM == InitFSM /\ [][NextFSM]_vars

\* A guard called on its own.  The last checkpoint and the chase target lie
\* on either side of the arrival tolerance, left and right of the soldier;
\* the player stands left of the soldier, at its x, and on either side of
\* melee_range, shooting_range and hearing_range.
GuardTargets == {989, 1010, 1011}
GuardEnemyXs == {995, 1000, 1099, 1100, 1799, 1800, 2000, 2001}

GuardFsmInputs ==
    [state : {"idle", "run"},
     hp : {MaxHp},
     current_mag : {0, MagSize},
     patrol_checkpoints :
        {<<>>} \cup {<<t>> : t \in GuardTargets}
               \cup {<<t, u>> : t \in GuardTargets, u \in GuardTargets},
     chase_to : {None} \cup {Some(t) : t \in GuardTargets},
     take_a_break : BOOLEAN,
     reload_done : {FALSE},
     alert_done : {FALSE},
     is_recovered : BOOLEAN]

GuardKwargs ==
    {k \in [soldier_coordinate : {<<SoldierX, 0>>},
            soldier_facing_direction : {RIGHT_FACING, LEFT_FACING},
            enemy_coordinate : GuardEnemyXs \X EnemyYs,
            enemy_hitting : BOOLEAN,
            enemy_barking : BOOLEAN,
            enemy_hp : {HP}] :
        ~(k.enemy_hitting /\ k.enemy_barking)}

InitGuard ==
    /\ fsm \in GuardFsmInputs
    /\ sol = SoldierInit
    /\ banjo = BanjoInit
    /\ obs = [op |-> "input"]
    /\ platoon = <<>>

\* SoldierFSM.is_being_hit(**k) called on its own
IsBeingHitCall(k) ==
    /\ obs.op = "input"
    /\ LET r == is_being_hit(fsm, k)
       IN  /\ fsm' = r.f
           /\ obs' = [op |-> "is_being_hit", pre |-> fsm, k |-> k, ret |-> r.r]
    /\ UNCHANGED <<sol, banjo, platoon>>

\* SoldierFSM.can_patrol(**k)
CanPatrolCall(k) ==
    /\ obs.op = "input"
    /\ LET r == can_patrol(fsm, k)
       IN  /\ fsm' = r.f
           /\ obs' = [op |-> "can_patrol", pre |-> fsm, k |-> k, ret |-> r.r]
    /\ UNCHANGED <<sol, banjo, platoon>>

\* SoldierFSM.can_chase(**k)
CanChaseCall(k) ==
    /\ obs.op = "input"
    /\ LET r == can_chase(fsm, k)
       IN  /\ fsm' = r.f
           /\ obs' = [op |-> "can_chase", pre |-> fsm, k |-> k, ret |-> r.r]
    /\ UNCHANGED <<sol, banjo, platoon>>

\* SoldierFSM.can_shoot(**k)
CanShootCall(k) ==
    /\ obs.op = "input"
    /\ LET r == can_shoot(fsm, k)
       IN  /\ fsm' = r.f
           /\ obs' = [op |-> "can_shoot", pre |-> fsm, k |-> k, ret |-> r.r]
    /\ UNCHANGED <<sol, banjo, platoon>>

\* SoldierFSM.can_melee(**k)
CanMeleeCall(k) ==
    /\ obs.op = "input"
    /\ LET r == can_melee(fsm, k)
       IN  /\ fsm' = r.f
           /\ obs' = [op |-> "can_melee", pre |-> fsm, k |-> k, ret |-> r.r]
    /\ UNCHANGED <<sol, banjo, platoon>>

\* SoldierFSM.can_hear(**k)
CanHearCall(k) ==
    /\ obs.op = "input"
    /\ LET r == can_hear(fsm, k)
       IN  /\ fsm' = r.f
           /\ obs' = [op |-> "can_hear", pre |-> fsm, k |-> k, ret |-> r.r]
    /\ UNCHANGED <<sol, banjo, platoon>>

NextGuard ==
    \E k \in GuardKwargs :
        \/ IsBeingHitCall(k)
        \/ CanPatrolCall(k)
        \/ CanChaseCall(k)
        \/ CanShootCall(k)
        \/ CanMeleeCall(k)
        \/ CanHearCall(k)

SpecGuard == InitGuard /\ [][NextGuard]_vars

\* The two resolvers of damage to the player called on their own, in the
\* order of update(), on a soldier in any state showing any frame.  The
\* player stands in melee reach, half way and at the far end of
\* shooting_range; it is unhurt and idle or hitting, or in its death clip
\* with the hp that eat() can have given back; the roll is in percent.
CombatEnemyXs == {1005, 1400, 1799}
CombatRolls == {0, 50, 99}

CombatPlayers ==
    {[BanjoInit EXCEPT !.center_x = x, !.hp = p[1], !.current_animation = p[2]] :
        x \in CombatEnemyXs,
        p \in {<<HP, "idle">>, <<HP, "melee">>, <<0, "death">>,
               <<EatHeal, "death">>}}

InitCombat ==
    /\ fsm \in {[FsmInit EXCEPT !.state = s] : s \in States}
    /\ sol \in {[SoldierInit EXCEPT !.current_texture_index = i] :
                    i \in 0..NumFrames}
    /\ banjo \in CombatPlayers
    /\ obs = [op |-> "input"]
    /\ platoon = <<>>

\* self.melee_banjo(banjo); self.shoot_banjo(banjo) with the roll drawn
ResolveCall(roll) ==
    /\ obs.op = "input"
    /\ LET w0 == [f |-> fsm, s |-> sol, b |-> banjo]
           w == shoot_banjo(melee_banjo(w0), roll)
       IN  /\ fsm' = w.f
           /\ sol' = w.s
           /\ banjo' = w.b
           /\ obs' = [op |-> "resolve", pre |-> w0, roll |-> roll]
           /\ UNCHANGED platoon

NextCombat == \E roll \in CombatRolls : ResolveCall(roll)

SpecCombat == InitCombat /\ [][NextCombat]_vars

\* calculate_accuracy called on its own at two distances, for base
\* accuracies from 0 to 100 percent and distances from 0 to shooting_range
BaseAccuracies == {0, 50, 80, 100}
ShotDistances == {0, 1, 400, 799, 800}

InitAccuracy ==
    /\ fsm = FsmInit
    /\ sol = SoldierInit
    /\ banjo = BanjoInit
    /\ obs \in [op : {"input"}, accuracy : BaseAccuracies,
                 d1 : ShotDistances, d2 : ShotDistances]
    /\ platoon = <<>>

CalculateAccuracyCall ==
    /\ obs.op = "input"
    /\ obs' = [op |-> "calculate_accuracy", accuracy |-> obs.accuracy,
               d1 |-> obs.d1, d2 |-> obs.d2,
               r1 |-> calculate_accuracy(obs.accuracy, obs.d1),
               r2 |-> calculate_accuracy(obs.accuracy, obs.d2)]
    /\ UNCHANGED <<fsm, sol, banjo, platoon>>

NextAccuracy == CalculateAccuracyCall

SpecAccuracy == InitAccuracy /\ [][NextAccuracy]_vars

\* Sequences of damaged() calls on the soldier and on the player, with
\* eat() in between: damages below, equal to and above the hp left
SoldierDamages == {1, MaxHp + 1}
PlayerDamages == {EatHeal, HP, HP + EatHeal}

InitDamage ==
    /\ fsm = FsmInit
    /\ sol = SoldierInit
    /\ banjo = BanjoInit
    /\ obs = [op |-> "init"]
    /\ platoon = <<>>

\* Soldier.damaged(damage)
SoldierDamagedCall(damage) ==
    /\ fsm' = damaged(fsm, damage)
    /\ obs' = [op |-> "Soldier.damaged", damage |-> damage, pre |-> fsm.hp]
    /\ UNCHANGED <<sol, banjo, platoon>>

\* Banjo.damaged(damage)
BanjoDamagedCall(damage) ==
    /\ banjo' = Banjo_damaged(banjo, damage)
    /\ obs' = [op |-> "Banjo.damaged", damage |-> damage, pre |-> banjo.hp]
    /\ UNCHANGED <<fsm, sol, platoon>>

\* Banjo.eat()
BanjoEatCall ==
    /\ banjo' = Banjo_eat(banjo)
    /\ obs' = [op |-> "Banjo.eat", damage |-> 0, pre |-> banjo.hp]
    /\ UNCHANGED <<fsm, sol, platoon>>

NextDamage ==
    \/ \E damage \in SoldierDamages : SoldierDamagedCall(damage)
    \/ \E damage \in PlayerDamages : BanjoDamagedCall(damage)
    \/ BanjoEatCall

SpecDamage == InitDamage /\ [][NextDamage]_vars

\* update_state called on its own: a soldier in any state facing either
\* way, the magazine full or empty, a reload finished or not; the player on
\* its left, at its x or on its right, in or out of sight, idle or hitting,
\* alive or dead
FacingFsmInputs ==
    {[FsmInit EXCEPT !.state = st, !.current_mag = m, !.reload_done = r] :
        st \in States, m \in {0, MagSize}, r \in BOOLEAN}

FacingSoldiers ==
    {[SoldierInit EXCEPT !.character_facing_direction = d] :
        d \in {RIGHT_FACING, LEFT_FACING}}

FacingPlayers ==
    {[BanjoInit EXCEPT !.center_x = x, !.center_y = y,
                       !.current_animation = a, !.hp = h] :
        x \in {995, SoldierX, 1100}, y \in {0, 51},
        a \in {"idle", "melee"}, h \in {0, HP}}

InitUpdateState ==
    /\ fsm \in FacingFsmInputs
    /\ sol \in FacingSoldiers
    /\ banjo \in FacingPlayers
    /\ obs = [op |-> "input"]
    /\ platoon = <<>>

\* Soldier.update_state(banjo)
UpdateStateCall ==
    /\ obs.op = "input"
    /\ LET w == update_state([f |-> fsm, s |-> sol, b |-> banjo])
       IN  /\ fsm' = w.f
           /\ sol' = w.s
           /\ banjo' = w.b
    /\ obs' = [op |-> "update_state", pre |-> sol]
    /\ UNCHANGED platoon

NextUpdateState == UpdateStateCall

SpecUpdateState == InitUpdateState /\ [][NextUpdateState]_vars

\* A platoon of one to three soldiers and the player, one call.  The
\* soldiers: one in Shoot about to show its impact frame, with a shooting
\* damage of 60; one in Melee next to the player about to show its impact
\* frame; one idle without a target; one running.  The player is unhurt, or
\* in its death clip with the hp of one eat().
PlatoonSizes == {1, 2, 3}
Offsets == {-300, 300}

PlatoonSoldiers ==
    { [f |-> [FsmInit EXCEPT !.state = "shoot", !.chase_to = Some(1100)],
       s |-> [SoldierInit EXCEPT !.current_texture_index = 1,
                                 !.shooting_damage = 60]],
      [f |-> [FsmInit EXCEPT !.state = "melee", !.chase_to = Some(1100)],
       s |-> [SoldierInit EXCEPT !.center_x = 1050]],
      [f |-> FsmInit, s |-> SoldierInit],
      [f |-> [FsmInit EXCEPT !.state = "run", !.chase_to = Some(1100)],
       s |-> [SoldierInit EXCEPT !.change_x = running_velocity]],
      [f |-> [FsmInit EXCEPT !.state = "hurt", !.is_recovered = FALSE],
       s |-> [SoldierInit EXCEPT !.center_x = 1050]] }

Platoons ==
    UNION {[1..n -> PlatoonSoldiers] : n \in PlatoonSizes}

PlatoonPlayers ==
    { [BanjoInit EXCEPT !.center_x = 1100],
      [BanjoInit EXCEPT !.center_x = 1100, !.hp = EatHeal,
                        !.current_animation = "death", !.is_dying = TRUE],
      [BanjoInit EXCEPT !.center_x = 1100, !.hp = 60,
                        !.current_animation = "melee",
                        !.current_texture_index = 3] }

\* the draws of one shots_fired(): a row of offsets for each converge call
OffsetTables(n) == [1..n -> [1..n -> Offsets]]

\* the same row for each converge call
UniformOffsetTables(n) ==
    {[i \in 1..n |-> row] : row \in [1..n -> Offsets]}

InitPlatoon ==
    /\ fsm = FsmInit
    /\ sol = SoldierInit
    /\ banjo \in PlatoonPlayers
    /\ obs = [op |-> "input"]
    /\ platoon \in Platoons

\* platoon.shots_fired()
ShotsFiredCall(offsets) ==
    /\ obs.op = "input"
    /\ platoon' = shots_fired(platoon, offsets)
    /\ obs' = [op |-> "shots_fired", pre |-> platoon]
    /\ UNCHANGED <<fsm, sol, banjo>>

\* platoon.update(delta_time, banjo=banjo)
PlatoonUpdateCall(delta_time, rolls, checkpoint, offsets) ==
    /\ obs.op = "input"
    /\ LET r == Platoon_update(platoon, banjo, delta_time, rolls, checkpoint,
                               offsets)
       IN  /\ platoon' = r.p
           /\ banjo' = r.b
    /\ obs' = [op |-> "Platoon.update", pre |-> platoon, b |-> banjo,
               delta_time |-> delta_time, rolls |-> rolls,
               checkpoint |-> checkpoint]
    /\ UNCHANGED <<fsm, sol>>

\* platoon.update(delta_time)
PlatoonUpdateNoBanjo ==
    /\ obs.op = "input"
    /\ LET r == Platoon_update_no_banjo(platoon)
       IN  /\ platoon' = r.p
           /\ obs' = [op |-> "Platoon.update without banjo",
                      pre |-> platoon, b |-> banjo, raised |-> r.raised]
    /\ UNCHANGED <<fsm, sol, banjo>>

\* platoon.soldiers[i].update(delta_time)
SoldierUpdateNoBanjo(i) ==
    /\ obs.op = "input"
    /\ LET r == update_no_banjo(platoon[i])
       IN  /\ platoon' = [platoon EXCEPT ![i] = r.w]
           /\ obs' = [op |-> "Soldier.update without banjo",
                      pre |-> platoon, b |-> banjo, raised |-> r.raised]
    /\ UNCHANGED <<fsm, sol, banjo>>

NextPlatoon ==
    \/ \E offsets \in OffsetTables(Len(platoon)) : ShotsFiredCall(offsets)
    \/ \E delta_time \in DeltaTimes, checkpoint \in Checkpoints,
          rolls \in [1..Len(platoon) -> Rolls],
          offsets \in UniformOffsetTables(Len(platoon)) :
            PlatoonUpdateCall(delta_time, rolls, checkpoint, offsets)
    \/ PlatoonUpdateNoBanjo
    \/ \E i \in 1..Len(platoon) : SoldierUpdateNoBanjo(i)

SpecPlatoon == InitPlatoon /\ [][NextPlatoon]_vars

-----------------------------------------------------------------------------
(* SpecField: one soldier and the player, frame by frame, on open ground:  *)
(* the player keeps its distance, in and out of the soldier's sight        *)

\* what the player does in a frame: 1700 is within shooting_range of both
\* ends of the soldier's beat, 1850 only of the right end; 51 is out of the
\* vertical tolerance; at 1005 the player is on the beat and hits
FieldPoses ==
    {<<1700, 0, "idle", 0>>, <<1850, 0, "idle", 0>>, <<1850, 51, "idle", 0>>,
     <<1005, 0, "melee", 3>>}

\* patrol lists a level sets: one checkpoint at either end of the beat
FieldPatrolLists == {<<1000>>, <<1100>>}

\* the target positions a platoon-mate in Shoot broadcasts
BroadcastTargets == {1300, 1400}

\* Platoon.converge(target_position) with the soldier in the platoon: a
\* platoon-mate is in Shoot when Platoon.shots_fired runs
Converge(target_position, offset) ==
    /\ fsm' = converge(<<[f |-> fsm, s |-> sol]>>, target_position,
                       <<offset>>)[1].f
    /\ obs' = [op |-> "call"]
    /\ UNCHANGED <<sol, banjo, platoon>>

NextField ==
    \/ \E pose \in FieldPoses, delta_time \in DeltaTimes, roll \in Rolls,
          checkpoint \in Checkpoints :
            Frame(pose, delta_time, roll, checkpoint)
    \/ \E l \in FieldPatrolLists : SetPatrolCheckpoints(l)
    \/ \E target_position \in BroadcastTargets, offset \in Offsets :
            Converge(target_position, offset)

SpecField == Init /\ [][NextField]_vars

-----------------------------------------------------------------------------
(* SpecPatrol: one soldier and the player, frame by frame from             *)
(* construction, the soldier built with a patrol_pace of one frame period  *)

\* constructor argument patrol_pace of the soldier, in time units
PatrolPaces == {1}

InitPatrol ==
    /\ fsm \in {set_patrol_checkpoints(FsmInit, l) : l \in PatrolLists}
    /\ sol \in {[SoldierInit EXCEPT !.patrol_pace = pace] : pace \in PatrolPaces}
    /\ banjo = BanjoInit
    /\ obs = [op |-> "init"]
    /\ platoon = <<>>

NextPatrol ==
    \/ \E pose \in PlayerPoses, delta_time \in DeltaTimes, roll \in Rolls,
          checkpoint \in Checkpoints :
            Frame(pose, delta_time, roll, checkpoint)
    \/ \E target_position \in BroadcastTargets, offset \in Offsets :
            Converge(target_position, offset)

SpecPatrol == InitPatrol /\ [][NextPatrol]_vars

-----------------------------------------------------------------------------
(* SpecRecovery: one soldier and the player, frame by frame from           *)
(* construction; the game loop calls Soldier.update in every frame, so the *)
(* ticks keep arriving                                                     *)

NextRecovery ==
    \E pose \in PlayerPoses, delta_time \in DeltaTimes, roll \in Rolls,
       checkpoint \in Checkpoints :
        Frame(pose, delta_time, roll, checkpoint)

SpecRecovery == Init /\ [][NextRecovery]_vars /\ WF_vars(NextRecovery)

-----------------------------------------------------------------------------
(* The volley: a soldier whose clips show one frame every second tick, as   *)
(* when delta_time is below the frame period, and whose shots do not kill   *)
(* at once.  obs tallies the shots that damaged the player and the rounds   *)
(* that left the magazine.                                                   *)

\* animation_fps of the clips, in ticks
FramePeriods == {2}

\* constructor argument shooting_damage
VolleyDamages == {40}

\* the tally stops the run when it has counted this many hits or rounds
MaxTally == 2

InitVolley ==
    /\ fsm = FsmInit
    /\ sol \in {[SoldierInit EXCEPT !.animation_fps = period,
                                    !.shooting_damage = damage] :
                    period \in FramePeriods, damage \in VolleyDamages}
    /\ banjo = BanjoInit
    /\ obs = [op |-> "init", hits |-> 0, rounds |-> 0]
    /\ platoon = <<>>

\* One frame of the game loop, tallied: shoot_banjo is the only call of the
\* tick that damages the player when the tick starts in Shoot, and
\* Soldier1.shoot the only one that takes a round
Volley(pose, delta_time, roll, checkpoint) ==
    LET b == handle_player_controls(Banjo_update_animation(banjo), pose)
        w == update([f |-> fsm, s |-> sol, b |-> b], delta_time, roll,
                    checkpoint)
        hit == fsm.state = "shoot" /\ w.b.hp < b.hp
        fired == w.f.current_mag < fsm.current_mag
    IN  /\ obs.hits < MaxTally
        /\ obs.rounds < MaxTally
        /\ fsm' = w.f
        /\ sol' = w.s
        /\ banjo' = w.b
        /\ obs' = [op |-> "update",
                   hits |-> IF hit THEN obs.hits + 1 ELSE obs.hits,
                   rounds |-> IF fired THEN obs.rounds + 1 ELSE obs.rounds]
        /\ UNCHANGED platoon

NextVolley ==
    \E pose \in PlayerPoses, delta_time \in DeltaTimes, roll \in Rolls,
       checkpoint \in Checkpoints :
        Volley(pose, delta_time, roll, checkpoint)

SpecVolley == InitVolley /\ [][NextVolley]_vars

-----------------------------------------------------------------------------
(* Properties                                                              *)

\* the live states
Live == States \ {"at_ease", "dead"}

\* C1: Dead is terminal: a cycle() call on a soldier in Dead, with any
\* signals and any values of the flags, leaves the state Dead.
C1_DeadIsTerminal ==
    (obs.op = "cycle" /\ obs.pre.state = "dead") => fsm.state = "dead"

\* a cycle() in Dead with the player dead and the magazine empty, the two
\* signals that move a live soldier first
C1_Witness ==
    /\ obs.op = "cycle"
    /\ obs.pre.state = "dead"
    /\ obs.k.enemy_hp <= 0
    /\ obs.pre.current_mag = 0
    /\ fsm.state = "dead"

\* C2: once the soldier's hp has reached 0, the soldier becomes Dead, whatever
\* state it was in and whatever signals follow, the player being dead
\* included: a soldier with hp = 0 never stands in AtEase, the state that no
\* cycle() leaves.
C2_HpZeroNeverAtEase ==
    fsm.hp = 0 => fsm.state # "at_ease"

\* C3: enemy_dead has the highest priority in every live state: a cycle()
\* with player hp <= 0 from Idle, Walk, Run, Shoot, Melee, Reload, Hurt or
\* Alert ends in AtEase, whatever the other signals and fields are.
C3_EnemyDeadFirst ==
    (obs.op = "cycle" /\ obs.pre.state \in Live /\ obs.k.enemy_hp <= 0)
        => fsm.state = "at_ease"

\* a soldier in Hurt without hp, being hit from within reach, the player dead
C3_Witness ==
    /\ obs.op = "cycle"
    /\ obs.pre.state = "hurt"
    /\ obs.pre.hp = 0
    /\ obs.k.enemy_hitting
    /\ obs.k.enemy_coordinate = <<995, 50>>
    /\ obs.k.enemy_hp <= 0
    /\ fsm.state = "at_ease"

\* C4: AtEase is sticky: no step takes a soldier out of AtEase, whatever the
\* player's hp has become.
C4_AtEaseIsSticky ==
    [][fsm.state = "at_ease" => fsm'.state = "at_ease"]_vars

\* an update() that began in AtEase while the player's hp was positive again
C4_Witness ==
    /\ obs.op = "update"
    /\ obs.pre = "at_ease"
    /\ banjo.hp > 0
    /\ banjo.is_dying
    /\ fsm.state = "at_ease"

\* C5: from Idle and from Run, cycle() ends in the target of the first guard
\* that holds, in the order enemy_dead, is_being_hit, can_melee, mag_empty,
\* can_shoot, can_hear, can_chase, can_patrol, and in Idle when none holds.
C5_IdleRunOrder ==
    (obs.op = "cycle" /\ obs.pre.state \in {"idle", "run"}) =>
        LET f == obs.pre
            k == obs.k
        IN  fsm.state =
                IF enemy_dead(f, k).r THEN "at_ease"
                ELSE IF is_being_hit(f, k).r THEN "hurt"
                ELSE IF can_melee(f, k).r THEN "melee"
                ELSE IF mag_empty(f, k).r THEN "reload"
                ELSE IF can_shoot(f, k).r THEN "shoot"
                ELSE IF can_hear(f, k).r THEN "alert"
                ELSE IF can_chase(f, k).r THEN "run"
                ELSE IF can_patrol(f, k).r THEN "walk"
                ELSE "idle"

\* a cycle() from Run in which only the last two guards hold
C5_Witness ==
    /\ obs.op = "cycle"
    /\ obs.pre.state = "run"
    /\ can_chase(obs.pre, obs.k).r
    /\ can_patrol(obs.pre, obs.k).r
    /\ fsm.state = "run"

\* C6: a soldier enters AtEase only on a cycle() in which the player is dead:
\* after an update() that began in another state and ended in AtEase, the
\* player's hp is at most 0.
C6_AtEaseOnlyWhenEnemyDead ==
    (obs.op = "update" /\ obs.pre # "at_ease" /\ fsm.state = "at_ease")
        => banjo.hp <= 0

\* C7: from Hurt, cycle() ends in AtEase if the player is dead, otherwise in
\* Dead if the soldier's hp is at most 0, otherwise in Hurt if the soldier is
\* hit from within reach or has not recovered, otherwise in Idle.
C7_HurtRow ==
    (obs.op = "cycle" /\ obs.pre.state = "hurt") =>
        LET f == obs.pre
            k == obs.k
            reach ==
                /\ Abs(k.enemy_coordinate[2] - k.soldier_coordinate[2]) <= 50
                /\ Abs(k.enemy_coordinate[1] - k.soldier_coordinate[1]) < 100
        IN  fsm.state =
                IF k.enemy_hp <= 0 THEN "at_ease"
                ELSE IF f.hp <= 0 THEN "dead"
                ELSE IF (k.enemy_hitting /\ reach) \/ ~f.is_recovered THEN "hurt"
                ELSE "idle"

\* a recovered soldier in Hurt is hit again from within reach
C7_Witness ==
    /\ obs.op = "cycle"
    /\ obs.pre.state = "hurt"
    /\ obs.pre.hp > 0
    /\ obs.pre.is_recovered
    /\ obs.k.enemy_hp > 0
    /\ obs.k.enemy_hitting
    /\ obs.k.enemy_coordinate = <<995, 50>>
    /\ fsm.state = "hurt"

\* C8: from Shoot, cycle() ends in the target of the first of enemy_dead,
\* is_being_hit, can_melee, mag_empty, can_shoot, can_chase that holds, and
\* from Melee the same with (mag_empty and can_shoot) in the place of
\* mag_empty; in Idle when none holds.
C8_ShootMeleeRows ==
    (obs.op = "cycle" /\ obs.pre.state \in {"shoot", "melee"}) =>
        LET f == obs.pre
            k == obs.k
            reloads ==
                IF f.state = "shoot"
                THEN mag_empty(f, k).r
                ELSE mag_empty(f, k).r /\ can_shoot(f, k).r
        IN  fsm.state =
                IF enemy_dead(f, k).r THEN "at_ease"
                ELSE IF is_being_hit(f, k).r THEN "hurt"
                ELSE IF can_melee(f, k).r THEN "melee"
                ELSE IF reloads THEN "reload"
                ELSE IF can_shoot(f, k).r THEN "shoot"
                ELSE IF can_chase(f, k).r THEN "run"
                ELSE "idle"

\* a soldier in Melee with an empty magazine that cannot shoot and has
\* nowhere to run
C8_Witness ==
    /\ obs.op = "cycle"
    /\ obs.pre.state = "melee"
    /\ obs.pre.current_mag = 0
    /\ obs.k.enemy_hp > 0
    /\ ~can_shoot(obs.pre, obs.k).r
    /\ fsm.state = "idle"

\* C9: from Reload, cycle() ends in the target of the first of enemy_dead,
\* is_being_hit, can_melee, finish_reloading, mag_empty, can_shoot, can_hear,
\* can_chase that holds, and in Idle when none holds.
C9_ReloadRow ==
    (obs.op = "cycle" /\ obs.pre.state = "reload") =>
        LET f == obs.pre
            k == obs.k
        IN  fsm.state =
                IF enemy_dead(f, k).r THEN "at_ease"
                ELSE IF is_being_hit(f, k).r THEN "hurt"
                ELSE IF can_melee(f, k).r THEN "melee"
                ELSE IF f.reload_done THEN "idle"
                ELSE IF f.current_mag = 0 THEN "reload"
                ELSE IF can_shoot(f, k).r THEN "shoot"
                ELSE IF can_hear(f, k).r THEN "alert"
                ELSE IF can_chase(f, k).r THEN "run"
                ELSE "idle"

\* a completed reload of an empty magazine while the player is in sight
C9_Witness ==
    /\ obs.op = "cycle"
    /\ obs.pre.state = "reload"
    /\ obs.pre.reload_done
    /\ obs.pre.current_mag = 0
    /\ can_shoot(obs.pre, obs.k).r
    /\ fsm.state = "idle"
    /\ fsm.current_mag = MagSize

\* C10: is_being_hit returns true exactly when the player plays the melee
\* clip, is horizontally nearer than melee_range and vertically at most 50
\* away; when it returns true, is_recovered is false afterwards.
C10_IsBeingHit ==
    obs.op = "is_being_hit" =>
        LET k == obs.k
            dx == Abs(k.enemy_coordinate[1] - k.soldier_coordinate[1])
            dy == Abs(k.enemy_coordinate[2] - k.soldier_coordinate[2])
        IN  /\ obs.ret <=> (k.enemy_hitting /\ dx < 100 /\ dy <= 50)
            /\ obs.ret => ~fsm.is_recovered

\* C11: the soldier loses hp in an update() only if, in that tick, the player
\* plays the melee clip on one of its impact frames and stands horizontally
\* nearer than melee_range and vertically at most 50 away.
C11_HpDropsOnlyInReach ==
    [][(obs'.op = "update" /\ fsm'.hp < fsm.hp) =>
        /\ banjo'.current_animation = "melee"
        /\ banjo'.current_texture_index \in melee_impact_texture_indices_banjo
        /\ Abs(banjo'.center_x - sol'.center_x) < melee_range
        /\ Abs(banjo'.center_y - sol'.center_y) <= VerticalTolerance]_vars

\* C12: the magazine stays within its bounds: 0 <= current_mag <= mag_size
\* in every reachable state.
C12_MagWithinBounds ==
    fsm.current_mag >= 0 /\ fsm.current_mag <= MagSize

\* an update() that began in Shoot has fired the last round
C12_Witness ==
    /\ obs.op = "update"
    /\ obs.pre = "shoot"
    /\ fsm.current_mag = 0

\* C13 as stated: an update() in Shoot that takes the magazine to 0 ends in
\* Reload.
C13_EmptyMagReloads ==
    [][(obs'.op = "update" /\ fsm.state = "shoot"
            /\ fsm.current_mag > 0 /\ fsm'.current_mag = 0)
        => fsm'.state = "reload"]_vars

\* C13: an update() in Shoot that takes the magazine to 0 ends in Reload
\* provided none of the three guards ahead of mag_empty in the row holds:
\* the player is alive, does not play the melee clip within the vertical
\* tolerance, and is not within melee reach.
C13_EmptyMagReloadsUnlessPreempted ==
    [][(/\ obs'.op = "update" /\ fsm.state = "shoot"
        /\ fsm.current_mag > 0 /\ fsm'.current_mag = 0
        /\ banjo'.hp > 0
        /\ ~(/\ banjo'.current_animation = "melee"
             /\ Abs(banjo'.center_y - sol'.center_y) <= VerticalTolerance)
        /\ ~(/\ Abs(banjo'.center_x - sol'.center_x) < melee_range
             /\ Abs(banjo'.center_y - sol'.center_y) <= VerticalTolerance))
        => fsm'.state = "reload"]_vars

\* the last round was fired at a living player out of reach and the soldier
\* went to Reload
C13_Witness ==
    /\ obs.op = "update"
    /\ obs.pre = "shoot"
    /\ fsm.current_mag = 0
    /\ banjo.hp > 0
    /\ banjo.current_animation = "idle"
    /\ Abs(banjo.center_x - sol.center_x) >= melee_range
    /\ fsm.state = "reload"

\* C14: current_mag grows only in an update() whose cycle() goes from Reload
\* to Idle; right after it current_mag = mag_size and reload_done is false.
C14_RefillOnlyOnFinishedReload ==
    [][fsm'.current_mag > fsm.current_mag =>
        /\ obs'.op = "update"
        /\ fsm.state = "reload"
        /\ fsm'.state = "idle"
        /\ fsm'.current_mag = MagSize
        /\ ~fsm'.reload_done]_vars

\* the reload clip has been played to its end on an empty magazine
C14_Witness ==
    /\ obs.op = "update"
    /\ obs.pre = "reload"
    /\ fsm.state = "idle"
    /\ fsm.current_mag = MagSize
    /\ ~fsm.reload_done

\* C15: can_patrol is true exactly when the checkpoint list is non-empty and
\* the soldier is more than 10 away from its last element; with a non-empty
\* list and the soldier within 10 of the last element it is false and sets
\* take_a_break; with an empty list it is false and changes nothing.  The
\* elements before the last play no part.
C15_CanPatrol ==
    obs.op = "can_patrol" =>
        LET f == obs.pre
            l == f.patrol_checkpoints
            far == IF l = <<>> THEN FALSE
                   ELSE Abs(obs.k.soldier_coordinate[1] - l[Len(l)]) > 10
        IN  /\ obs.ret <=> far
            /\ fsm = IF l # <<>> /\ ~far
                     THEN [f EXCEPT !.take_a_break = TRUE]
                     ELSE f

\* the soldier stands at the last of two checkpoints, away from the first
C15_Witness ==
    /\ obs.op = "can_patrol"
    /\ obs.pre.patrol_checkpoints = <<1011, 1010>>
    /\ ~obs.pre.take_a_break
    /\ ~obs.ret
    /\ fsm.take_a_break

\* C16: can_chase is true exactly when chase_to is set and the soldier is
\* more than 10 away from it, and then changes nothing; with chase_to set
\* and the soldier within 10 of it, it is false and clears chase_to; with
\* chase_to unset it is false and changes nothing.
C16_CanChase ==
    obs.op = "can_chase" =>
        LET f == obs.pre
            far == IF f.chase_to = None THEN FALSE
                   ELSE Abs(obs.k.soldier_coordinate[1] - f.chase_to[1]) > 10
        IN  /\ obs.ret <=> far
            /\ fsm = IF f.chase_to # None /\ ~far
                     THEN [f EXCEPT !.chase_to = None]
                     ELSE f

\* the soldier is exactly 10 away from its target
C16_Witness ==
    /\ obs.op = "can_chase"
    /\ obs.pre.chase_to = Some(1010)
    /\ ~obs.ret
    /\ fsm.chase_to = None

\* C18: can_shoot is true exactly when the player is vertically at most 50
\* away, strictly on the side the soldier faces, and horizontally nearer
\* than shooting_range; a player at the soldier's x is never shootable.
C18_CanShoot ==
    obs.op = "can_shoot" =>
        LET k == obs.k
            sx == k.soldier_coordinate[1]
            ex == k.enemy_coordinate[1]
            dy == Abs(k.enemy_coordinate[2] - k.soldier_coordinate[2])
        IN  obs.ret <=>
                /\ dy <= 50
                /\ \/ k.soldier_facing_direction = RIGHT_FACING /\ ex > sx
                   \/ k.soldier_facing_direction = LEFT_FACING /\ ex < sx
                /\ Abs(ex - sx) < 800

\* the player stands at the soldier's x, within the vertical tolerance
C18_Witness ==
    /\ obs.op = "can_shoot"
    /\ obs.k.enemy_coordinate = <<SoldierX, 50>>
    /\ ~obs.ret

\* C19: can_hear, can_melee and can_shoot set chase_to to the player's x
\* when they return true and change no other field; when they return false
\* they change no field at all.
C19_SensingSetsChaseTo ==
    obs.op \in {"can_hear", "can_melee", "can_shoot"} =>
        fsm = IF obs.ret
              THEN [obs.pre EXCEPT !.chase_to = Some(obs.k.enemy_coordinate[1])]
              ELSE obs.pre

\* a bark heard from the edge of hearing_range replaces an older target
C19_Witness ==
    /\ obs.op = "can_hear"
    /\ obs.pre.chase_to = Some(1010)
    /\ obs.k.enemy_coordinate[1] = 2000
    /\ obs.ret
    /\ fsm.chase_to = Some(2000)

\* C17: whenever the soldier is within 10 of its chase target in a tick,
\* chase_to is unset after the cycle() of that tick, in whatever state the
\* soldier is.
C17_ArrivalClearsChaseTo ==
    [][(/\ obs'.op = "update"
        /\ fsm.chase_to # None
        /\ Abs(sol'.center_x - fsm.chase_to[1]) <= 10)
        => fsm'.chase_to = None]_vars

\* C20: with the soldier in Shoot on a shoot impact frame, the player is
\* damaged by shooting_damage exactly when the roll is at most the accuracy
\* at the player's distance; with the soldier in Melee on a melee impact
\* frame, the player is damaged by melee_damage without a roll; in every
\* other state or frame the player is not damaged.  Damage to a living
\* player takes exactly that amount off its hp, down to 0.
C20_CombatResolver ==
    obs.op = "resolve" =>
        LET w == obs.pre
            b == w.b
            d == Abs(b.center_x - w.s.center_x)
            hit == obs.roll * 800 * 800
                    <= 100 * 800 * 800 - (100 - accuracy) * d * d
            damage ==
                IF w.f.state = "shoot" /\ w.s.current_texture_index = 2 /\ hit
                THEN shooting_damage
                ELSE IF w.f.state = "melee" /\ w.s.current_texture_index = 1
                     THEN melee_damage
                     ELSE 0
        IN  /\ fsm = w.f
            /\ sol = w.s
            /\ damage = 0 => banjo = b
            /\ damage > 0 => banjo = Banjo_damaged(b, damage)
            /\ (damage > 0 /\ b.current_animation # "death") =>
                    banjo.hp = Max(0, b.hp - damage)

\* a shot on the impact frame at half range, with a roll of 50 against an
\* accuracy of 75, takes the player's hp
C20_Witness ==
    /\ obs.op = "resolve"
    /\ obs.pre.f.state = "shoot"
    /\ obs.pre.s.current_texture_index = 2
    /\ obs.pre.b.center_x = 1400
    /\ obs.pre.b.hp = HP
    /\ obs.roll = 50
    /\ banjo.hp = HP - shooting_damage

\* C25: at every physics step the commanded velocity matches the state: the
\* change_x an update() leaves behind, which the next physics step applies,
\* is 0 in Idle, Shoot, Melee, Reload, Alert, Hurt, Dead and AtEase, and the
\* walking or running velocity signed by the facing in Walk and Run.
C25_VelocityMatchesState ==
    obs.op = "update" =>
        sol.change_x =
            IF fsm.state = "walk"
            THEN IF sol.character_facing_direction = RIGHT_FACING
                 THEN walking_velocity ELSE -walking_velocity
            ELSE IF fsm.state = "run"
                 THEN IF sol.character_facing_direction = RIGHT_FACING
                      THEN running_velocity ELSE -running_velocity
                 ELSE 0

\* C30: the timers are reset on the transitions: an update() that enters
\* Hurt from another state leaves time_since_last_hit = 0, and an update()
\* that enters a patrol rest (Idle with take_a_break set) leaves
\* time_since_last_coordinate = 0.
C30_TimersResetOnEntry ==
    [][obs'.op = "update" =>
        /\ (fsm.state # "hurt" /\ fsm'.state = "hurt")
                => sol'.time_since_last_hit = 0
        /\ (/\ fsm'.state = "idle" /\ fsm'.take_a_break
            /\ ~(fsm.state = "idle" /\ fsm.take_a_break))
                => sol'.time_since_last_coordinate = 0]_vars

C29_AlertKeptWhileHearing ==
    (obs.op = "cycle" /\ obs.pre.state = "alert") =>
        LET f == obs.pre
            k == obs.k
        IN  (/\ ~enemy_dead(f, k).r
             /\ ~is_being_hit(f, k).r
             /\ ~can_melee(f, k).r
             /\ ~mag_empty(f, k).r
             /\ ~can_shoot(f, k).r
             /\ can_hear(f, k).r)
            => fsm.state = "alert"

C24_HpFloorsAtZero ==
    /\ fsm.hp >= 0
    /\ banjo.hp >= 0
    /\ (obs.op = "Banjo.damaged" /\ obs.pre = 0) => banjo.hp = 0

\* the player, at 20 hp after four hits of 20, takes a damage of 120
C24_Witness ==
    /\ obs.op = "Banjo.damaged"
    /\ obs.pre = EatHeal
    /\ obs.damage = HP + EatHeal
    /\ banjo.hp = 0
    /\ fsm.hp = 0

\* C26: after update_state(), a soldier in Shoot, Melee or Reload faces the
\* player: left iff the player's x is smaller than the soldier's, right
\* otherwise, whatever it faced before; in every other resulting state the
\* facing is the one before the call.
C26_CombatStanceFacesPlayer ==
    obs.op = "update_state" =>
        sol = [obs.pre EXCEPT !.character_facing_direction =
                IF fsm.state \in {"shoot", "melee", "reload"}
                THEN IF banjo.center_x < sol.center_x
                     THEN LEFT_FACING ELSE RIGHT_FACING
                ELSE obs.pre.character_facing_direction]

\* a soldier facing left ends in Melee with the player at its own x
C26_Witness ==
    /\ obs.op = "update_state"
    /\ obs.pre.character_facing_direction = LEFT_FACING
    /\ banjo.center_x = sol.center_x
    /\ fsm.state = "melee"
    /\ sol.character_facing_direction = RIGHT_FACING

\* C21: in a platoon with at least one soldier in Shoot, after
\* shots_fired() the chase_to of every soldier lies within 300 of the
\* chase_to a shooting soldier held when shots_fired() began, however many
\* soldiers are shooting.
C21_SquadConvergence ==
    (/\ obs.op = "shots_fired"
     /\ \E i \in 1..Len(obs.pre) : obs.pre[i].f.state = "shoot")
    => \A j \in 1..Len(platoon) :
        \E i \in 1..Len(obs.pre) :
            /\ obs.pre[i].f.state = "shoot"
            /\ platoon[j].f.chase_to # None
            /\ Abs(platoon[j].f.chase_to[1] - obs.pre[i].f.chase_to[1]) <= 300

\* the orders in which n soldiers can be updated
Orders(n) == {o \in [1..n -> 1..n] : \A i, j \in 1..n : o[i] = o[j] => i = j}

\* C22: with the roll of each soldier fixed, the player's hp at the end of a
\* tick is the same for every order in which the soldiers of the platoon are
\* updated.
C22_OrderIndependentHp ==
    obs.op = "Platoon.update" =>
        \A o \in Orders(Len(obs.pre)) :
            LET p == [i \in 1..Len(obs.pre) |-> obs.pre[o[i]]]
                rolls == [i \in 1..Len(obs.pre) |-> obs.rolls[o[i]]]
            IN  update_soldiers(p, obs.b, 1, obs.delta_time, rolls,
                                obs.checkpoint).b.hp = banjo.hp

\* the shooter, whose shot of 60 hits, is updated before the soldier in
\* Melee, whose blow of 100 takes the rest
C22_Witness ==
    /\ obs.op = "Platoon.update"
    /\ Len(obs.pre) >= 2
    /\ obs.pre[1].f.state = "shoot"
    /\ obs.pre[2].f.state = "melee"
    /\ obs.rolls[1] = 0
    /\ obs.b.hp = HP
    /\ banjo.hp = 0

\* C23: Soldier.update and Platoon.update called without the banjo keyword
\* argument raise ValueError and change nothing: every soldier of the
\* platoon and the player are as before the call.
C23_NoBanjoRaisesFirst ==
    obs.op \in {"Soldier.update without banjo",
                "Platoon.update without banjo"} =>
        /\ obs.raised = "ValueError"
        /\ platoon = obs.pre
        /\ banjo = obs.b

\* the call is made on a running soldier, which a physics step would move
C23_Witness ==
    /\ obs.op = "Soldier.update without banjo"
    /\ obs.raised = "ValueError"
    /\ \E i \in 1..Len(platoon) :
        /\ platoon[i].f.state = "run"
        /\ platoon[i].s.change_x = running_velocity
        /\ platoon[i].s.center_x = StartX

\* C31: whenever the combat resolver rolls for a shot (the soldier is in
\* Shoot and the frame shown is a shoot impact frame), the player is nearer
\* than shooting_range at that moment.  The roll is made in shoot_banjo,
\* after the physics step and the animation of the tick and before cycle(),
\* with the positions the tick ends with.
C31_RollOnlyInsideGate ==
    [][(/\ obs'.op = "update"
        /\ fsm.state = "shoot"
        /\ ~sol.is_dead
        /\ sol'.current_texture_index \in shoot_impact_texture_indices)
       => Abs(banjo'.center_x - sol'.center_x) < shooting_range]_vars

\* C32: whether a soldier in Hurt takes the player's blow in a tick does not
\* depend on the order in which the soldiers of the platoon are updated: with
\* the roll of each soldier fixed, the hp of every soldier that began the
\* tick in Hurt is the same after the tick for every order.
C32_HurtCheckOrderIndependent ==
    obs.op = "Platoon.update" =>
        \A o \in Orders(Len(obs.pre)) :
            LET p == [i \in 1..Len(obs.pre) |-> obs.pre[o[i]]]
                rolls == [i \in 1..Len(obs.pre) |-> obs.rolls[o[i]]]
                r == update_soldiers(p, obs.b, 1, obs.delta_time, rolls,
                                     obs.checkpoint).p
            IN  \A i \in 1..Len(obs.pre) :
                    obs.pre[o[i]].f.state = "hurt"
                        => r[i].f.hp = platoon[o[i]].f.hp

\* C33: whenever the soldier's state is Shoot its chase_to is not None, after
\* any sequence of ticks, calls of set_patrol_checkpoints and broadcasts of a
\* platoon-mate; Platoon.shots_fired, which passes the chase_to of a soldier
\* in Shoot to converge(), therefore never passes None.
C33_ShootHasTarget ==
    fsm.state = "shoot" => fsm.chase_to # None

\* the soldier, at the right end of its beat, sees the player from Idle and
\* takes the player's position as its target
C33_Witness ==
    /\ fsm.state = "shoot"
    /\ obs.op = "update"
    /\ obs.pre = "idle"
    /\ fsm.chase_to = Some(banjo.center_x)
    /\ sol.center_x = 1100

\* C34: a soldier in Hurt with hp > 0 is back in Idle after finitely many
\* ticks, unless the player hits again or dies first: while the player does
\* not play the melee clip the time since the last hit grows with every
\* tick, is_recovered is set once it exceeds time_to_recover, and the
\* cycle() of that tick takes the soldier to Idle.
C34_RecoveryIsLive ==
    (fsm.state = "hurt" /\ fsm.hp > 0)
        ~> (\/ fsm.state = "idle"
            \/ banjo.current_animation = "melee"
            \/ banjo.hp = 0)

\* the soldier, hit and still alive, has recovered and is back in Idle
C34_Witness ==
    /\ obs.op = "update"
    /\ obs.pre = "hurt"
    /\ fsm.state = "idle"
    /\ fsm.hp > 0
    /\ fsm.is_recovered
    /\ banjo.current_animation # "melee"
    /\ banjo.hp > 0

\* C35: the patrol rest, tick by tick, for a soldier whose patrol_pace is one
\* delta_time.  A walking soldier that has come within 10 units of its
\* checkpoint does not walk on: if it is walking or idle after the tick, it
\* is in Idle with take_a_break set.  While it rests in Idle the checkpoint
\* list, the facing and take_a_break are as they were.  The rest ends
\* (take_a_break is cleared, or the list changes) only in Idle, not in the
\* tick right after the soldier arrived walking (that rest has lasted one
\* delta_time, which is not more than patrol_pace), and leaves exactly one
\* checkpoint in [500, 2000].  When the rest ends and the new checkpoint is
\* more than 10 units away, a soldier that is walking or idle after the tick
\* is walking.
C35_PatrolRest ==
    [][obs'.op = "update" =>
        /\ (/\ fsm.state = "walk"
            /\ fsm.patrol_checkpoints # <<>>
            /\ Abs(sol'.center_x
                    - fsm.patrol_checkpoints[Len(fsm.patrol_checkpoints)])
                <= ArrivalTolerance
            /\ fsm'.state \in {"walk", "idle"})
           => fsm'.state = "idle" /\ fsm'.take_a_break
        /\ (/\ fsm.state = "idle"
            /\ fsm.take_a_break
            /\ sol.time_since_last_coordinate <= sol.patrol_pace
            /\ fsm'.state = "idle")
           => /\ fsm'.patrol_checkpoints = fsm.patrol_checkpoints
              /\ sol'.character_facing_direction
                    = sol.character_facing_direction
              /\ fsm'.take_a_break
        /\ (/\ fsm.take_a_break
            /\ \/ fsm'.patrol_checkpoints # fsm.patrol_checkpoints
               \/ ~fsm'.take_a_break)
           => /\ fsm.state = "idle"
              /\ ~(obs.op = "update" /\ obs.pre = "walk")
              /\ Len(fsm'.patrol_checkpoints) = 1
              /\ fsm'.patrol_checkpoints[1] \in 500..2000
        /\ (/\ fsm.state = "idle"
            /\ fsm.take_a_break
            /\ sol.time_since_last_coordinate > sol.patrol_pace
            /\ Abs(sol'.center_x
                    - fsm'.patrol_checkpoints[Len(fsm'.patrol_checkpoints)])
                > ArrivalTolerance
            /\ fsm'.state \in {"walk", "idle"})
           => fsm'.state = "walk" /\ ~fsm'.take_a_break]_vars

\* C36: whenever the soldier's state is Reload its magazine is empty; a tick
\* that starts in Reload ends in Reload, AtEase, Hurt, Melee or Idle, and in
\* Idle only with the magazine refilled, so the rows of Reload after
\* mag_empty (can_shoot, can_hear, can_chase, the row without cond) never
\* fire.
C36_ReloadHasEmptyMag ==
    /\ fsm.state = "reload" => fsm.current_mag = 0
    /\ (obs.op = "update" /\ obs.pre = "reload")
        => /\ fsm.state \in {"reload", "at_ease", "hurt", "melee", "idle"}
           /\ fsm.state = "idle" => fsm.current_mag = MagSize

\* a reload has finished: the soldier is back in Idle with a full magazine
C36_Witness ==
    /\ obs.op = "update"
    /\ obs.pre = "reload"
    /\ fsm.state = "idle"
    /\ fsm.current_mag = MagSize
    /\ ~fsm.reload_done

\* C37: whenever is_recovered is false the soldier's state is Hurt, AtEase
\* or Dead: an unrecovered soldier never patrols, chases, shoots, melees,
\* reloads or goes on alert.
C37_UnrecoveredIsOutOfAction ==
    ~fsm.is_recovered => fsm.state \in {"hurt", "at_ease", "dead"}

\* the blows have stopped and the soldier, not yet recovered, is held in Hurt
C37_Witness ==
    /\ obs.op = "update"
    /\ obs.pre = "hurt"
    /\ fsm.state = "hurt"
    /\ ~fsm.is_recovered
    /\ fsm.hp > 0
    /\ banjo.current_animation # "melee"
    /\ banjo.hp > 0

\* C38: every magazine refill is preceded by a complete reload clip played
\* since the soldier most recently entered Reload.  A soldier that entered
\* Reload at the end of one tick has played at most one frame of the clip by
\* the end of the next, so that tick refills nothing, and the frame it
\* played is frame 0: the index was reset on entry.
C38_RefillAfterFullClip ==
    [][(/\ obs.op = "update"
        /\ obs.pre # "reload"
        /\ fsm.state = "reload"
        /\ obs'.op = "update")
       => /\ fsm'.current_mag = fsm.current_mag
          /\ sol'.current_texture_index = 1]_vars

\* C39: a soldier that ends a tick in Shoot is still in Shoot at the end of
\* the next tick when nothing changes: the player stands where it stood,
\* alive and not meleeing, outside melee range, within shooting range and
\* vertical tolerance, the soldier has not moved and has a round left;
\* wherever the soldier's patrol checkpoint lies.
C39_ShootIsSteady ==
    [][(/\ obs.op = "update"
        /\ obs'.op = "update"
        /\ fsm.state = "shoot"
        /\ fsm'.hp > 0
        /\ fsm'.current_mag > 0
        /\ sol'.center_x = sol.center_x
        /\ banjo'.center_x = banjo.center_x
        /\ banjo'.center_y = banjo.center_y
        /\ banjo.hp > 0
        /\ banjo'.hp > 0
        /\ banjo.current_animation # "melee"
        /\ banjo'.current_animation # "melee"
        /\ Abs(banjo'.center_y - sol'.center_y) <= VerticalTolerance
        /\ Abs(banjo'.center_x - sol'.center_x) >= melee_range
        /\ Abs(banjo'.center_x - sol'.center_x) < shooting_range)
       => fsm'.state = "shoot"]_vars

\* C40: over any run the number of times the soldier's shots have damaged
\* the player never exceeds the number of rounds that have left its
\* magazine.
C40_HitsWithinRounds ==
    obs.hits <= obs.rounds

====
